---- MODULE Spec2Model ----
(***************************************************************************)
(* Model of the LibreNMS API client (src/LibreNMS.py): device_exists and   *)
(* add_device.  A caller runs add_device; a network call is two steps     *)
(* (the request is issued, the remote answers or the transport fails) and  *)
(* the client code between two network calls is one step.  The remote API  *)
(* is the environment: under Spec it is a mock that may answer anything,   *)
(* under SpecConc it is a platform with a device registry shared by        *)
(* several concurrently running callers.                                   *)
(***************************************************************************)
EXTENDS Integers, Sequences, FiniteSets, TLC

\* ------------------------------------------------------------------ bounds

\* number of concurrently running callers of add_device (SpecConc)
NumCallers == 2
\* largest value of the `count` field the remote puts in a lookup body
MaxCount == 2

\* ------------------------------------------------------- program constants

HTTP_OK == 200
HTTP_NOT_FOUND == 404

\* ------------------------------------------------------------------ inputs

Callers == 1..NumCallers
\* the callers of the sequential specification: one
SeqCallers == {1}

Hostnames == {"host1", "host2"}
Communities == {"public", "secret"}
\* stands for a call that passes no snmp_version argument
NoArg == "<default>"
SnmpVersions == {"1", "2", "3", "v1", "v2c", "v3", "v9", "", NoArg}

\* arguments of the concurrent specification (a subset of the above)
ConcCommunities == {"public"}
ConcSnmpVersions == {"2", "v9"}

\* ------------------------------------------------------------ JSON values

\* A decoded JSON object: `keys` are the fields present; an absent field
\* holds a filler that is never read.
JsonObject(keys, status, count, message) ==
    [keys |-> keys, status |-> status, count |-> count, message |-> message]

EmptyObject == JsonObject({}, "", 0, "")

\* lookup bodies: {status?: string, count?: integer}
LookupBodies ==
    { b \in [keys : SUBSET {"status", "count"}, status : {"", "error", "ok"},
             count : -1..MaxCount, message : {""}] :
        /\ ("status" \in b.keys) <=> (b.status # "")
        /\ ("count" \notin b.keys) => (b.count = 0) }

\* creation bodies: free-form objects
CreateBodies ==
    { JsonObject({"status", "message"}, "ok", 0, "Device has been added"),
      JsonObject({"status", "message"}, "error", 0, "Could not ping device"),
      JsonObject({"status", "message"}, "error", 0, "Already have device"),
      EmptyObject }

\* An HTTP response: status code, whether the body decodes as JSON, and the
\* decoded body (EmptyObject filler when it does not decode).
Response(status, json, body) == [status |-> status, json |-> json, body |-> body]

NoResponse == Response(0, FALSE, EmptyObject)

\* 500 stands for the status codes the client has no branch for
StatusCodes == {HTTP_OK, HTTP_NOT_FOUND, 500}

LookupResponses ==
    { Response(s, TRUE, b) : s \in StatusCodes, b \in LookupBodies } \cup
    { Response(s, FALSE, EmptyObject) : s \in StatusCodes }

CreateResponses ==
    { Response(s, TRUE, b) : s \in {HTTP_OK, 500}, b \in CreateBodies } \cup
    { Response(s, FALSE, EmptyObject) : s \in {HTTP_OK, 500} }

\* ------------------------------------------------- outcomes of a function

\* how a Python call ends: kind "return" with a value, or kind "raise" with
\* the exception class and, for Exception(response), the response carried.
Return(v) == [kind |-> "return", value |-> v, exc |-> "", carried |-> NoResponse]
Raise(exc, carried, filler) ==
    [kind |-> "raise", value |-> filler, exc |-> exc, carried |-> carried]
Pending(filler) == [kind |-> "none", value |-> filler, exc |-> "", carried |-> NoResponse]

\* ------------------------------------------------------- device_exists

\* dict.get(key) == 'error' on the decoded body
StatusIsError(body) == "status" \in body.keys /\ body.status = "error"

\* device_exists with the comparison of line 55 off by one
device_exists_count_gt_one(response) ==
    IF response.status = HTTP_NOT_FOUND /\ ~response.json
      THEN Raise("JSONDecodeError", NoResponse, FALSE)
    ELSE IF response.status = HTTP_NOT_FOUND /\ StatusIsError(response.body)
      THEN Return(FALSE)
    ELSE IF response.status = HTTP_OK
      THEN IF ~response.json
             THEN Raise("JSONDecodeError", NoResponse, FALSE)
           ELSE IF "count" \notin response.body.keys
             THEN Raise("TypeError", NoResponse, FALSE)
           ELSE IF response.body.count > 1
             THEN Return(TRUE)
           ELSE Raise("Exception", response, FALSE)
    ELSE Raise("Exception", response, FALSE)

\* device_exists that takes any 404 for "no such device" without reading
\* the body, and any 200 without an error status for "found"
device_exists_status_only(response) ==
    IF response.status = HTTP_NOT_FOUND
      THEN IF response.json /\ ~StatusIsError(response.body)
             THEN Return(FALSE)
             ELSE Raise("Exception", response, FALSE)
    ELSE IF response.status = HTTP_OK
      THEN IF ~response.json
             THEN Raise("JSONDecodeError", NoResponse, FALSE)
           ELSE IF "count" \notin response.body.keys
             THEN Raise("TypeError", NoResponse, FALSE)
           ELSE IF response.body.count > 0
             THEN Return(TRUE)
           ELSE Raise("Exception", response, FALSE)
    ELSE Raise("Exception", response, FALSE)

\* lines 49-57, given the response of the GET of line 48
device_exists(response) ==
    IF response.status = HTTP_NOT_FOUND /\ ~response.json
      THEN Raise("JSONDecodeError", NoResponse, FALSE)
    ELSE IF response.status = HTTP_NOT_FOUND /\ StatusIsError(response.body)
      THEN Return(FALSE)
    ELSE IF response.status = HTTP_OK
      THEN IF ~response.json
             THEN Raise("JSONDecodeError", NoResponse, FALSE)
           ELSE IF "count" \notin response.body.keys
             \* result.get('count') is None, and None > 0 raises
             THEN Raise("TypeError", NoResponse, FALSE)
           ELSE IF response.body.count > 0
             THEN Return(TRUE)
           ELSE Raise("Exception", response, FALSE)
    ELSE Raise("Exception", response, FALSE)

\* ---------------------------------------------------------- add_device

\* the default of the snmp_version parameter (line 59)
DefaultArg(snmp_version) == IF snmp_version = NoArg THEN "v2c" ELSE snmp_version

\* the normalisation with "2" mapped to the name "v2"
NormalizeVersion_v2(snmp_version) ==
    LET v1 == IF snmp_version = "1" THEN "v1" ELSE snmp_version
        v2 == IF v1 = "2" THEN "v2" ELSE v1
        v3 == IF v2 = "3" THEN "v3" ELSE v2
    IN  v3

\* lines 76-83
NormalizeVersion(snmp_version) ==
    LET v1 == IF snmp_version = "1" THEN "v1" ELSE snmp_version
        v2 == IF v1 = "2" THEN "v2c" ELSE v1
        v3 == IF v2 = "3" THEN "v3" ELSE v2
    IN  v3

\* the validation accepting every non-empty version
VersionIsValid_nonempty(snmp_version) == snmp_version # ""

\* line 85
VersionIsValid(snmp_version) == snmp_version \in {"v1", "v2c", "v3"}

\* the message of line 74 without the hostname
AlreadyExists_no_hostname(hostname) ==
    JsonObject({"status", "message"}, "error", 0, "Device already exists")

\* line 74
AlreadyExists(hostname) ==
    JsonObject({"status", "message"}, "error", 0,
               "Device with hostname '" \o hostname \o "' already exists")

\* lines 91-95
Payload(hostname, community, snmp_version) ==
    [hostname |-> hostname, community |-> community, version |-> snmp_version]

NoPayload == Payload("", "", "")

\* add_device without the branch of line 73: the result of the check is
\* not used and the POST is issued for a device that exists
add_device_unchecked(hostname, community, snmp_version, exists) ==
    IF exists.kind = "raise"
      THEN [post |-> FALSE, payload |-> NoPayload,
            outcome |-> Raise(exists.exc, exists.carried, EmptyObject)]
    ELSE IF ~VersionIsValid(NormalizeVersion(snmp_version))
      THEN [post |-> FALSE, payload |-> NoPayload,
            outcome |-> Raise("ValueError", NoResponse, EmptyObject)]
    ELSE [post |-> TRUE,
          payload |-> Payload(hostname, community, NormalizeVersion(snmp_version)),
          outcome |-> Pending(EmptyObject)]

\* add_device with the validation of line 85 moved above the use of the
\* check of line 73
add_device_validate_first(hostname, community, snmp_version, exists) ==
    IF exists.kind = "raise"
      THEN [post |-> FALSE, payload |-> NoPayload,
            outcome |-> Raise(exists.exc, exists.carried, EmptyObject)]
    ELSE IF ~VersionIsValid(NormalizeVersion(snmp_version))
      THEN [post |-> FALSE, payload |-> NoPayload,
            outcome |-> Raise("ValueError", NoResponse, EmptyObject)]
    ELSE IF exists.value
      THEN [post |-> FALSE, payload |-> NoPayload,
            outcome |-> Return(AlreadyExists(hostname))]
    ELSE [post |-> TRUE,
          payload |-> Payload(hostname, community, NormalizeVersion(snmp_version)),
          outcome |-> Pending(EmptyObject)]

\* lines 73-97: what add_device does once device_exists has ended with
\* `exists`: it returns, raises, or issues the POST with a payload.
add_device(hostname, community, snmp_version, exists) ==
    IF exists.kind = "raise"
      THEN [post |-> FALSE, payload |-> NoPayload,
            outcome |-> Raise(exists.exc, exists.carried, EmptyObject)]
    ELSE IF exists.value
      THEN [post |-> FALSE, payload |-> NoPayload,
            outcome |-> Return(AlreadyExists(hostname))]
    ELSE IF ~VersionIsValid(NormalizeVersion(snmp_version))
      THEN [post |-> FALSE, payload |-> NoPayload,
            outcome |-> Raise("ValueError", NoResponse, EmptyObject)]
    ELSE [post |-> TRUE,
          payload |-> Payload(hostname, community, NormalizeVersion(snmp_version)),
          outcome |-> Pending(EmptyObject)]

\* line 98 with a raise_for_status() before the decoding
add_device_result_raise_for_status(response) ==
    IF response.status >= 400 THEN Raise("HTTPError", response, EmptyObject)
    ELSE IF response.json THEN Return(response.body)
    ELSE Raise("JSONDecodeError", NoResponse, EmptyObject)

\* line 98
add_device_result(response) ==
    IF response.json THEN Return(response.body)
    ELSE Raise("JSONDecodeError", NoResponse, EmptyObject)

\* ------------------------------------------------------------------ state

VARIABLES
    pc,          \* per caller: "idle", "get_wait", "checking", "post_wait", "done"
    args,        \* per caller: the arguments of the running call
    getResp,     \* per caller: the response of the GET, once answered
    exists,      \* per caller: how device_exists ended
    payload,     \* per caller: the JSON payload of the POST, once sent
    postResp,    \* per caller: the response of the POST, once answered
    outcome,     \* per caller: how add_device ended
    log,         \* per caller: the network events of the running call
    registered,  \* remote platform: hostnames that have a device
    regAtGet     \* per caller: was the hostname registered when the GET was answered

vars == <<pc, args, getResp, exists, payload, postResp, outcome, log,
          registered, regAtGet>>

NoArgs == [hostname |-> "", community |-> "", snmp_version |-> ""]

Init ==
    /\ pc = [c \in Callers |-> "idle"]
    /\ args = [c \in Callers |-> NoArgs]
    /\ getResp = [c \in Callers |-> NoResponse]
    /\ exists = [c \in Callers |-> Pending(FALSE)]
    /\ payload = [c \in Callers |-> NoPayload]
    /\ postResp = [c \in Callers |-> NoResponse]
    /\ outcome = [c \in Callers |-> Pending(EmptyObject)]
    /\ log = [c \in Callers |-> << >>]
    /\ registered = {}
    /\ regAtGet = [c \in Callers |-> FALSE]

\* ---------------------------------------------------------------- actions

\* A caller enters add_device (line 59), which enters device_exists
\* (line 73) and issues the GET (lines 47-48).
add_device_call(c, hostname, community, snmp_version) ==
    /\ pc[c] \in {"idle", "done"}
    /\ pc' = [pc EXCEPT ![c] = "get_wait"]
    /\ args' = [args EXCEPT ![c] = [hostname |-> hostname, community |-> community,
                                    snmp_version |-> snmp_version]]
    /\ getResp' = [getResp EXCEPT ![c] = NoResponse]
    /\ exists' = [exists EXCEPT ![c] = Pending(FALSE)]
    /\ payload' = [payload EXCEPT ![c] = NoPayload]
    /\ postResp' = [postResp EXCEPT ![c] = NoResponse]
    /\ outcome' = [outcome EXCEPT ![c] = Pending(EmptyObject)]
    /\ log' = [log EXCEPT ![c] = <<"GET">>]
    /\ regAtGet' = [regAtGet EXCEPT ![c] = FALSE]
    /\ UNCHANGED registered

\* The remote answers the GET and requests.request of line 48 returns the
\* response.
get_response(c, response) ==
    /\ pc[c] = "get_wait"
    /\ pc' = [pc EXCEPT ![c] = "checking"]
    /\ getResp' = [getResp EXCEPT ![c] = response]
    /\ log' = [log EXCEPT ![c] = log[c] \o <<"GET_RESP">>]
    /\ regAtGet' = [regAtGet EXCEPT ![c] = args[c].hostname \in registered]
    /\ UNCHANGED <<args, exists, payload, postResp, outcome, registered>>

\* device_exists runs lines 49-57 on the response and add_device goes on
\* (lines 73-97) until it returns, raises or has issued the POST.
add_device_check(c) ==
    /\ pc[c] = "checking"
    /\ LET e == device_exists(getResp[c])
           r == add_device(args[c].hostname, args[c].community,
                           DefaultArg(args[c].snmp_version), e)
       IN  /\ exists' = [exists EXCEPT ![c] = e]
           /\ payload' = [payload EXCEPT ![c] = r.payload]
           /\ outcome' = [outcome EXCEPT ![c] = r.outcome]
           /\ pc' = [pc EXCEPT ![c] = IF r.post THEN "post_wait" ELSE "done"]
           /\ log' = [log EXCEPT ![c] =
                        IF r.post THEN log[c] \o <<"POST">> ELSE log[c]]
    /\ UNCHANGED <<args, getResp, postResp, registered, regAtGet>>

\* requests.request of line 48 raises (connection, TLS, timeout): the
\* exception leaves device_exists and add_device uncaught.
get_transport_failure(c) ==
    /\ pc[c] = "get_wait"
    /\ pc' = [pc EXCEPT ![c] = "done"]
    /\ exists' = [exists EXCEPT ![c] = Raise("ConnectionError", NoResponse, FALSE)]
    /\ outcome' = [outcome EXCEPT ![c] = Raise("ConnectionError", NoResponse, EmptyObject)]
    /\ log' = [log EXCEPT ![c] = log[c] \o <<"GET_FAIL">>]
    /\ UNCHANGED <<args, getResp, payload, postResp, registered, regAtGet>>

\* The POST is answered (line 97) and add_device returns the decoded body
\* (line 98); `reg` is the remote registry after it handled the request.
post_response(c, response, reg) ==
    /\ pc[c] = "post_wait"
    /\ pc' = [pc EXCEPT ![c] = "done"]
    /\ postResp' = [postResp EXCEPT ![c] = response]
    /\ outcome' = [outcome EXCEPT ![c] = add_device_result(response)]
    /\ log' = [log EXCEPT ![c] = log[c] \o <<"POST_RESP">>]
    /\ registered' = reg
    /\ UNCHANGED <<args, getResp, exists, payload, regAtGet>>

\* requests.request of line 97 raises: the exception leaves add_device.
post_transport_failure(c) ==
    /\ pc[c] = "post_wait"
    /\ pc' = [pc EXCEPT ![c] = "done"]
    /\ outcome' = [outcome EXCEPT ![c] = Raise("ConnectionError", NoResponse, EmptyObject)]
    /\ log' = [log EXCEPT ![c] = log[c] \o <<"POST_FAIL">>]
    /\ UNCHANGED <<args, getResp, exists, payload, postResp, registered, regAtGet>>

\* ------------------------------------------------------ the remote platform

\* the platform's answer to GET /devices/{hostname}
RemoteLookup(reg, hostname) ==
    IF hostname \in reg
      THEN Response(HTTP_OK, TRUE, JsonObject({"status", "count"}, "ok", 1, ""))
      ELSE Response(HTTP_NOT_FOUND, TRUE, JsonObject({"status"}, "error", 0, ""))

\* the platform's answers to POST /devices, each with the registry after it:
\* a device is registered on each accepted POST.
RemoteCreate(reg, hostname) ==
    IF hostname \in reg
      THEN { [response |-> Response(500, TRUE,
                 JsonObject({"status", "message"}, "error", 0, "Already have device")),
              reg |-> reg] }
      ELSE { [response |-> Response(HTTP_OK, TRUE,
                 JsonObject({"status", "message"}, "ok", 0, "Device has been added")),
              reg |-> reg \cup {hostname}],
             [response |-> Response(500, TRUE,
                 JsonObject({"status", "message"}, "error", 0, "Could not ping device")),
              reg |-> reg] }

\* ---------------------------------------------------------- specifications

\* One caller, calls one after the other, against a mock API that may give
\* any answer.
Next ==
    \/ \E c \in SeqCallers, h \in Hostnames, m \in Communities, v \in SnmpVersions :
          add_device_call(c, h, m, v)
    \/ \E c \in SeqCallers, r \in LookupResponses : get_response(c, r)
    \/ \E c \in SeqCallers : add_device_check(c)
    \/ \E c \in SeqCallers : get_transport_failure(c)
    \/ \E c \in SeqCallers, r \in CreateResponses : post_response(c, r, registered)
    \/ \E c \in SeqCallers : post_transport_failure(c)

Spec == Init /\ [][Next]_vars

\* Several callers running add_device concurrently against one platform.
NextConc ==
    \/ \E c \in Callers, h \in Hostnames, m \in ConcCommunities, v \in ConcSnmpVersions :
          add_device_call(c, h, m, v)
    \/ \E c \in Callers : get_response(c, RemoteLookup(registered, args[c].hostname))
    \/ \E c \in Callers : add_device_check(c)
    \/ \E c \in Callers : get_transport_failure(c)
    \/ \E c \in Callers : \E a \in RemoteCreate(registered, args[c].hostname) :
          post_response(c, a.response, a.reg)
    \/ \E c \in Callers : post_transport_failure(c)

SpecConc == Init /\ [][NextConc]_vars

\* ------------------------------------------------------------ properties

\* the requests a call has issued so far
Gets(c) == Cardinality({ i \in DOMAIN log[c] : log[c][i] = "GET" })
Posts(c) == Cardinality({ i \in DOMAIN log[c] : log[c][i] = "POST" })
\* the GET was answered and device_exists has run on the response
GetAnswered(c) == pc[c] # "checking" /\ \E i \in DOMAIN log[c] : log[c][i] = "GET_RESP"
PostAnswered(c) == \E i \in DOMAIN log[c] : log[c][i] = "POST_RESP"

ExistsTrue(c) == exists[c].kind = "return" /\ exists[c].value
ExistsFalse(c) == exists[c].kind = "return" /\ ~exists[c].value

\* the six snmp_version literals the specification names
Recognized == {"1", "2", "3", "v1", "v2c", "v3"}
\* the version the call was made with (the default when none was passed)
VersionGiven(c) == IF args[c].snmp_version = NoArg THEN "v2c" ELSE args[c].snmp_version

\* C1: whenever device_exists returns True inside add_device, add_device
\* returns (does not raise) {status: "error", message: "Device with hostname
\* '<hostname>' already exists"} and the call issues no POST.
C1_ExistingDeviceRefused ==
    \A c \in Callers :
        ExistsTrue(c) =>
            /\ pc[c] = "done"
            /\ outcome[c].kind = "return"
            /\ outcome[c].value.keys = {"status", "message"}
            /\ outcome[c].value.status = "error"
            /\ outcome[c].value.message =
                  "Device with hostname '" \o args[c].hostname \o "' already exists"
            /\ Posts(c) = 0

C1_Witness ==
    \E c \in Callers :
        /\ ExistsTrue(c)
        /\ args[c].hostname = "host2"
        /\ outcome[c].kind = "return"

\* C2: a GET answered with status 200 and a JSON body whose count is greater
\* than 0 makes device_exists return True, without raising.
C2_FoundReturnsTrue ==
    \A c \in Callers :
        ( /\ GetAnswered(c)
          /\ getResp[c].status = 200
          /\ getResp[c].json
          /\ "count" \in getResp[c].body.keys
          /\ getResp[c].body.count > 0 )
        => ExistsTrue(c)

C2_Witness ==
    \E c \in Callers :
        /\ GetAnswered(c)
        /\ getResp[c].status = 200
        /\ getResp[c].json
        /\ "count" \in getResp[c].body.keys
        /\ getResp[c].body.count = 1
        /\ exists[c].kind = "return"

\* C3: a GET answered with status 404 and a JSON body whose status is
\* "error" makes device_exists return False, without raising.
C3_NotFoundReturnsFalse ==
    \A c \in Callers :
        ( /\ GetAnswered(c)
          /\ getResp[c].status = 404
          /\ getResp[c].json
          /\ "status" \in getResp[c].body.keys
          /\ getResp[c].body.status = "error" )
        => ExistsFalse(c)

C3_Witness ==
    \E c \in Callers :
        /\ GetAnswered(c)
        /\ getResp[c].status = 404
        /\ getResp[c].json
        /\ getResp[c].body.status = "error"
        /\ exists[c].kind = "return"
        /\ ~exists[c].value

\* the two shapes of a decoded GET response device_exists has a result for
HandledShape(r) ==
    \/ r.status = 404 /\ "status" \in r.body.keys /\ r.body.status = "error"
    \/ r.status = 200 /\ "count" \in r.body.keys /\ r.body.count > 0

\* C4: for every GET response with a JSON body that is neither (404 with
\* status "error") nor (200 with count > 0), device_exists returns no boolean
\* and fails with the error that carries the response, not with another one.
C4_UnexpectedResponseCarried ==
    \A c \in Callers :
        (GetAnswered(c) /\ getResp[c].json /\ ~HandledShape(getResp[c]))
        => /\ exists[c].kind = "raise"
           /\ exists[c].exc = "Exception"
           /\ exists[c].carried = getResp[c]

\* C5 as claimed: a call with a version outside the six literals fails with
\* ValueError and issues no POST, whatever the remote answers to the GET
\* (stated for the two answers the existence check has a result for).
C5_Original ==
    \A c \in Callers :
        ( /\ GetAnswered(c)
          /\ getResp[c].json
          /\ HandledShape(getResp[c])
          /\ VersionGiven(c) \notin Recognized )
        => /\ outcome[c].kind = "raise"
           /\ outcome[c].exc = "ValueError"
           /\ Posts(c) = 0

\* C5 as amended: a call with a version outside the six literals issues no
\* POST; once the GET is answered it fails with ValueError exactly when the
\* check returned False, returns the already-exists mapping when the check
\* returned True, and fails with the check's own error when the check failed.
C5_InvalidVersionNeverPosts ==
    \A c \in Callers :
        (pc[c] # "idle" /\ VersionGiven(c) \notin Recognized)
        => /\ Posts(c) = 0
           /\ pc[c] \in {"get_wait", "checking", "done"}
           /\ ExistsFalse(c) =>
                 (outcome[c].kind = "raise" /\ outcome[c].exc = "ValueError")
           /\ ExistsTrue(c) =>
                 ( /\ outcome[c].kind = "return"
                   /\ outcome[c].value.status = "error"
                   /\ "message" \in outcome[c].value.keys )
           /\ exists[c].kind = "raise" =>
                 ( /\ outcome[c].kind = "raise"
                   /\ outcome[c].exc = exists[c].exc
                   /\ outcome[c].carried = exists[c].carried )

C5_Witness ==
    \E c \in Callers :
        /\ args[c].snmp_version = "v9"
        /\ ExistsFalse(c)
        /\ outcome[c].exc = "ValueError"

\* C6 as claimed: when add_device fails with ValueError, no network call has
\* been issued: neither the GET nor the POST.
C6_Original ==
    \A c \in Callers :
        (outcome[c].kind = "raise" /\ outcome[c].exc = "ValueError")
        => (Gets(c) = 0 /\ Posts(c) = 0)

\* C6 as amended: when add_device fails with ValueError, the GET of the
\* existence check has been issued once and answered, the check returned
\* False, and no POST has been issued.
C6_ValueErrorAfterCheckBeforePost ==
    \A c \in Callers :
        (outcome[c].kind = "raise" /\ outcome[c].exc = "ValueError")
        => /\ log[c] = <<"GET", "GET_RESP">>
           /\ ExistsFalse(c)
           /\ VersionGiven(c) \notin Recognized
           /\ pc[c] = "done"

C6_Witness ==
    \E c \in Callers :
        /\ outcome[c].kind = "raise"
        /\ outcome[c].exc = "ValueError"
        /\ Gets(c) = 1
        /\ args[c].snmp_version = ""

\* the version the specification says is sent for a recognized input
ExpectedVersion(v) ==
    CASE v = "1" -> "v1"
      [] v = "2" -> "v2c"
      [] v = "3" -> "v3"
      [] OTHER -> v

\* C7: when the existence check returned False and the version is one of the
\* six literals (or left out), the POST is issued with a payload whose
\* version is "v1", "v2c", "v3" for "1", "2", "3", the input itself for
\* "v1", "v2c", "v3", "v2c" when left out, so always one of the three names;
\* hostname and community are the arguments unmodified.
C7_PayloadNormalized ==
    \A c \in Callers :
        /\ (ExistsFalse(c) /\ VersionGiven(c) \in Recognized) => Posts(c) = 1
        /\ Posts(c) > 0 =>
              /\ payload[c].version = ExpectedVersion(VersionGiven(c))
              /\ args[c].snmp_version = NoArg => payload[c].version = "v2c"
              /\ payload[c].version \in {"v1", "v2c", "v3"}
              /\ payload[c].hostname = args[c].hostname
              /\ payload[c].community = args[c].community

C7_Witness ==
    \E c \in Callers :
        /\ Posts(c) = 1
        /\ args[c].snmp_version = "2"
        /\ payload[c].version = "v2c"
        /\ payload[c].community = "secret"

\* C8: once the POST is answered with a JSON body, add_device returns
\* exactly that decoded body, whatever the status code; a failure is raised
\* only when the body does not decode.
C8_PostBodyPassedThrough ==
    \A c \in Callers :
        PostAnswered(c) =>
            /\ pc[c] = "done"
            /\ postResp[c].json =>
                  (outcome[c].kind = "return" /\ outcome[c].value = postResp[c].body)
            /\ ~postResp[c].json =>
                  (outcome[c].kind = "raise" /\ outcome[c].exc = "JSONDecodeError")

C8_Witness ==
    \E c \in Callers :
        /\ PostAnswered(c)
        /\ postResp[c].status = 500
        /\ postResp[c].json
        /\ outcome[c].kind = "return"
        /\ outcome[c].value.message = "Could not ping device"

\* the sequences of network events one call can produce
CallLogs ==
    { <<"GET">>, <<"GET", "GET_FAIL">>, <<"GET", "GET_RESP">>,
      <<"GET", "GET_RESP", "POST">>,
      <<"GET", "GET_RESP", "POST", "POST_RESP">>,
      <<"GET", "GET_RESP", "POST", "POST_FAIL">> }

\* C9: a call issues at most one GET and at most one POST, the GET is issued
\* and answered before the POST, and the POST is issued only if the check
\* returned False: when the check returns True or fails, the call has ended
\* with no POST.
C9_AtMostOneGetThenOnePost ==
    \A c \in Callers :
        /\ Gets(c) <= 1
        /\ Posts(c) <= 1
        /\ pc[c] # "idle" => log[c] \in CallLogs
        /\ Posts(c) > 0 => ExistsFalse(c)
        /\ (ExistsTrue(c) \/ exists[c].kind = "raise") => (pc[c] = "done" /\ Posts(c) = 0)

C9_Witness ==
    \E c \in Callers :
        /\ log[c] = <<"GET", "GET_RESP", "POST", "POST_RESP">>
        /\ ExistsFalse(c)

\* C10 as claimed: under any interleaving of concurrent calls, no POST is
\* sent for a hostname that is registered at the moment the POST is sent.
C10_Original ==
    [][ \A c \in Callers :
          (pc[c] = "checking" /\ pc'[c] = "post_wait")
          => args[c].hostname \notin registered ]_vars

\* C10 as amended: a POST is sent only by a call whose own existence check
\* returned False, that is for a hostname that was not registered at the
\* moment the platform answered that call's GET.
C10_NoPostIfRegisteredAtCheck ==
    \A c \in Callers :
        Posts(c) > 0 => (ExistsFalse(c) /\ ~regAtGet[c])

\* a POST in flight for a hostname another call has registered meanwhile
C10_Witness ==
    \E c \in Callers :
        /\ pc[c] = "post_wait"
        /\ ~regAtGet[c]
        /\ args[c].hostname \in registered

====
